---- MODULE Spec2Model ----
(***************************************************************************)
(* State-machine model of pifaceio.py: the PiFace board driver (class      *)
(* PiFace), the SPI transfer wrapper it shares between boards (class       *)
(* _SPIdev, kept in the class-level registry PiFace._spi), the MCP23S17   *)
(* chips behind each spidev device, and init() and deinit() of the piface  *)
(* package emulation.                                                      *)
(***************************************************************************)
EXTENDS Integers, Sequences, FiniteSets, TLC

(* ------------------------------------------------------------------ *)
(* Bounds of the model                                                  *)
(* ------------------------------------------------------------------ *)

\* number of PiFace(...) constructor calls a run makes (one object slot each)
MaxBoards == 2
\* number of close() calls a run makes on one PiFace object
MaxClose == 2
\* number of references that constructors which raised inside init() have
\* left on one spidev device
MaxLeak == 2

(* ------------------------------------------------------------------ *)
(* MCP23S17 register addresses                                          *)
(* ------------------------------------------------------------------ *)

_RA_IODIRA == 0
_RA_IODIRB == 1
_RA_IOCON == 10
_RA_GPPUA == 12
_RA_GPPUB == 13
_RA_GPIOA == 18
_RA_GPIOB == 19

(* ------------------------------------------------------------------ *)
(* Python integer arithmetic on the values the driver handles           *)
(* ------------------------------------------------------------------ *)

\* x & 0xff for any Python int (two's complement: -1 & 0xff = 255)
Low8(x) == x % 256

\* (~x) & 0xff: ~x is -x-1 in Python
Invert8(x) == Low8(-x - 1)

RECURSIVE BitsOp(_, _, _, _)
\* bitwise combination of the low n bits of a and b, bit by bit; op is
\* "xor", "or" or "and"
BitsOp(op, a, b, n) ==
  IF n = 0 THEN 0
  ELSE LET x == a % 2
           y == b % 2
           r == CASE op = "xor" -> (x + y) % 2
                  [] op = "or"  -> IF x + y > 0 THEN 1 ELSE 0
                  [] op = "and" -> x * y
       IN r + 2 * BitsOp(op, a \div 2, b \div 2, n - 1)

\* a ^ b, a | b, a & b on non-negative ints below 2^9
Xor(a, b) == BitsOp("xor", a, b, 9)
Or(a, b) == BitsOp("or", a, b, 9)
And(a, b) == BitsOp("and", a, b, 9)

\* 1 << n and x << 1
Shl1(x) == 2 * x
Bit(n) == 2 ^ n

(* ------------------------------------------------------------------ *)
(* Inputs the environment and the application supply                    *)
(* ------------------------------------------------------------------ *)

\* PiFace object slots: slot b holds the object of the b-th constructor call
Boards == 1..MaxBoards

\* (bus, chip) pairs: /dev/spidev0.0 and /dev/spidev0.1
BusAddrs == {<<0, 0>>, <<0, 1>>}

\* file descriptor numbers the kernel may hand out for a spidev open
Fds == {3, 4}

\* constructor arguments tried: board, pull_ups, read_polarity,
\* write_polarity, init_board.  The first is the constructor's defaults.
Defaults ==
  [board |-> 0, pull_ups |-> 255, read_polarity |-> 0,
   write_polarity |-> 255, init_board |-> TRUE]

Configs ==
  { Defaults,
    [board |-> 1, pull_ups |-> 15, read_polarity |-> 255,
     write_polarity |-> 0, init_board |-> FALSE],
    [board |-> 8, pull_ups |-> 255, read_polarity |-> 0,
     write_polarity |-> 255, init_board |-> TRUE],
    [board |-> -1, pull_ups |-> 255, read_polarity |-> 0,
     write_polarity |-> 255, init_board |-> FALSE] }

\* what the output latches of the chips hold when the program starts
Latches == {0, 240}

\* levels the input pins (port B) may show at a read
PinLevels == {15, 240}

\* argument lists of write(): write() leaves data at its default None,
\* 256 = 0x100 exceeds a byte
WriteArgs == {<<>>, <<0>>, <<15>>, <<256>>}

(* ------------------------------------------------------------------ *)
(* State                                                                *)
(* ------------------------------------------------------------------ *)

VARIABLES
  pf,     \* pf[b]: the PiFace object of slot b
  dev,    \* dev[d]: the _SPIdev object created by the constructor call d
  _spi,   \* PiFace._spi: (bus, chip) -> _SPIdev object (0: no entry)
  gpioa,  \* gpioa[a][n]: output latch (GPIOA) of chip n on spidev a
  last,   \* the last call made: what it was, how it ended, what it sent
  _pifaces  \* the module's _pifaces: the 8 objects of init() (<<>>: None)

vars == <<pf, dev, _spi, gpioa, last, _pifaces>>

\* a slot no constructor call has used yet ("none"), or whose constructor
\* raised ("failed"): there is no object.  An object a constructor
\* returned is "made"; nclose counts the close() calls made on it and
\* synced is the byte of the last transfer of the output port that
\* completed for it, seen through its write polarity.
NoBoard(st) ==
  [st |-> st, board |-> 0, busaddr |-> <<0, 0>>, spi |-> 0,
   read_polarity |-> 0, write_polarity |-> 0,
   outputs |-> 0, outputs_last |-> 0, inputs |-> 0,
   nclose |-> 0, synced |-> 0]

NoDev == [st |-> "none", busaddr |-> <<0, 0>>, count |-> 0, fn |-> 0, nclose |-> 0]

\* arg and ret are the argument list and the returned values (<<>>: None)
NoCall ==
  [op |-> "none", b |-> 0, arg |-> <<>>, cfg |-> Defaults, busaddr |-> <<0, 0>>,
   res |-> "ok", ret |-> <<>>, tx |-> <<>>]

Init ==
  /\ pf = [b \in Boards |-> NoBoard("none")]
  /\ dev = [d \in Boards |-> NoDev]
  /\ _spi = [a \in BusAddrs |-> 0]
  /\ gpioa = [a \in BusAddrs |-> [n \in 0..7 |-> 0]]
  /\ last = NoCall
  /\ _pifaces = <<>>

(* ------------------------------------------------------------------ *)
(* _SPIdev: 3 byte transfers through the ioctl on the file descriptor   *)
(* ------------------------------------------------------------------ *)

\* the board address and direction a command byte carries
Chip(cmd) == (cmd \div 2) % 8
IsRead(cmd) == cmd % 2 = 1

\* the _SPIdev objects whose open file owns the descriptor number that
\* object d kept in self.fn: d itself while d is open; none, or an object
\* opened later that was given the same number, once d is closed
Wired(d) == {e \in Boards : dev[e].st = "open" /\ dev[e].fn = dev[d].fn}

\* descriptor numbers free for a new open()
FreeFds == Fds \ {dev[e].fn : e \in {x \in Boards : dev[x].st = "open"}}

\* third byte the chip shifts back for the 3 bytes data on spidev a;
\* level is what the input pins show
Response(a, data, level) ==
  IF ~IsRead(data[1]) THEN 0
  ELSE IF data[2] = _RA_GPIOA THEN gpioa[a][Chip(data[1])]
  ELSE IF data[2] = _RA_GPIOB THEN level
  ELSE 0

\* output latches after the chip on spidev a took the 3 bytes data
Latch(a, data) ==
  IF ~IsRead(data[1]) /\ data[2] = _RA_GPIOA
  THEN [gpioa EXCEPT ![a][Chip(data[1])] = data[3]]
  ELSE gpioa

\* log entry of one transfer: the 3 bytes sent on spidev a, whether the
\* ioctl completed, and the third byte received if it did
Tx(a, data, ok, level) ==
  [busaddr |-> a, cmd |-> data[1], reg |-> data[2], data |-> data[3],
   ok |-> ok, val |-> IF ok THEN Response(a, data, level) ELSE 0]

\* _SPIdev.write / rewrite on object d with the 3 bytes data: the ioctl
\* raises without a transfer when the descriptor is closed, else the
\* transfer runs on the device that owns the descriptor and either
\* completes (io) or raises.  A record of what happened.
Transfer(d, data, io, level) ==
  IF Wired(d) = {}
  THEN [res |-> "TransferError", tx |-> <<>>, val |-> 0, gpioa |-> gpioa]
  ELSE LET e == CHOOSE x \in Wired(d) : TRUE
           a == dev[e].busaddr
       IN IF io
          THEN [res |-> "ok", tx |-> <<Tx(a, data, TRUE, level)>>,
                val |-> Response(a, data, level), gpioa |-> Latch(a, data)]
          ELSE [res |-> "TransferError", tx |-> <<Tx(a, data, FALSE, level)>>,
                val |-> 0, gpioa |-> gpioa]

\* the record kept of a call
Call(op, b, arg, res, ret, tx) ==
  [op |-> op, b |-> b, arg |-> arg, cfg |-> Defaults, busaddr |-> pf[b].busaddr,
   res |-> res, ret |-> ret, tx |-> tx]

(* ------------------------------------------------------------------ *)
(* PiFace.__init__                                                      *)
(* ------------------------------------------------------------------ *)

\* a range check that only looks at the upper end
InRange8_UpperOnly(board) == board < 8

\* "assert board in range(8)"
InRange8(board) == board \in 0..7

\* a command byte with the board address not shifted past the R/W bit
Cmdw_NoShift(board) == Or(64, board)

\* command bytes of a board
Cmdw(board) == Or(64, Shl1(board))
Cmdr(board) == Or(Cmdw(board), 1)

\* a mask used as configured, not complemented
Polarity_Plain(mask) == Low8(mask)

\* internal polarity mask of a configured one
Polarity(mask) == Invert8(mask)

\* a constructor that reads the inputs before the outputs
InitPlan_InputsFirst(cfg) ==
  (IF cfg.init_board
   THEN << <<Cmdw(cfg.board), _RA_IOCON, 8>>,
           <<Cmdw(cfg.board), _RA_IODIRA, 0>>,
           <<Cmdw(cfg.board), _RA_IODIRB, 255>>,
           <<Cmdw(cfg.board), _RA_GPPUB, Low8(cfg.pull_ups)>> >>
   ELSE <<>>)
  \o << <<Cmdr(cfg.board), _RA_GPIOB, 0>>,
        <<Cmdr(cfg.board), _RA_GPIOA, 0>> >>

\* the transfers the constructor makes, in order
InitPlan(cfg) ==
  (IF cfg.init_board
   THEN << <<Cmdw(cfg.board), _RA_IOCON, 8>>,
           <<Cmdw(cfg.board), _RA_IODIRA, 0>>,
           <<Cmdw(cfg.board), _RA_IODIRB, 255>>,
           <<Cmdw(cfg.board), _RA_GPPUB, Low8(cfg.pull_ups)>> >>
   ELSE <<>>)
  \o << <<Cmdr(cfg.board), _RA_GPIOA, 0>>,
        <<Cmdr(cfg.board), _RA_GPIOB, 0>> >>

\* the object a completed constructor leaves; out and inp are the bytes
\* the two reads returned
NewBoard(cfg, a, d, out, inp) ==
  [st |-> "made", board |-> cfg.board, busaddr |-> a, spi |-> d,
   read_polarity |-> Polarity(cfg.read_polarity),
   write_polarity |-> Polarity(cfg.write_polarity),
   outputs |-> Xor(out, Polarity(cfg.write_polarity)),
   outputs_last |-> Xor(out, Polarity(cfg.write_polarity)),
   inputs |-> Xor(inp, Polarity(cfg.read_polarity)),
   nclose |-> 0,
   synced |-> Xor(out, Polarity(cfg.write_polarity))]

\* a constructor that opens the spidev whether or not it is registered
NeedsOpen_Always(a) == TRUE

\* "if self.busaddr not in PiFace._spi"
NeedsOpen(a) == _spi[a] = 0

\* PiFace(board, pull_ups, read_polarity, write_polarity, init_board,
\* bus, chip) into slot b; level is what the input pins show
__init__(b, cfg, a, level) ==
  /\ pf[b].st = "none"
  /\ \A x \in Boards : x < b => pf[x].st # "none"
  /\ UNCHANGED _pifaces
  /\ IF ~InRange8(cfg.board)
     THEN \* the assertion fails
          /\ pf' = [pf EXCEPT ![b] = NoBoard("failed")]
          /\ last' = [Call("__init__", b, <<>>, "InvalidAddress", <<>>, <<>>)
                        EXCEPT !.busaddr = a, !.cfg = cfg]
          /\ UNCHANGED <<dev, _spi, gpioa>>
     ELSE \/ \* open() of the spidev raises
             /\ NeedsOpen(a)
             /\ pf' = [pf EXCEPT ![b] = NoBoard("failed")]
             /\ last' = [Call("__init__", b, <<>>, "DeviceUnavailable", <<>>, <<>>)
                           EXCEPT !.busaddr = a, !.cfg = cfg]
             /\ UNCHANGED <<dev, _spi, gpioa>>
          \/ \E fn \in (IF NeedsOpen(a) THEN FreeFds ELSE {0}) :
             \E k \in 0..Len(InitPlan(cfg)) :
               LET plan == InitPlan(cfg)
                   d == IF NeedsOpen(a) THEN b ELSE _spi[a]
                   dev1 == IF NeedsOpen(a)
                           THEN [dev EXCEPT ![b] =
                                   [st |-> "open", busaddr |-> a, count |-> 0,
                                    fn |-> fn, nclose |-> 0]]
                           ELSE dev
                   \* transfers 1..k complete; transfer k+1, if any, raises
                   sent == [i \in 1..(IF k < Len(plan) THEN k + 1 ELSE k) |->
                              Tx(a, plan[i], i <= k, level)]
               IN /\ _spi' = [_spi EXCEPT ![a] = d]
                  /\ dev' = [dev1 EXCEPT ![d].count = @ + 1]
                  /\ UNCHANGED gpioa
                  /\ IF k = Len(plan)
                     THEN /\ pf' = [pf EXCEPT ![b] =
                                      NewBoard(cfg, a, d,
                                        Response(a, plan[k - 1], level),
                                        Response(a, plan[k], level))]
                          /\ last' = [Call("__init__", b, <<>>, "ok", <<>>, sent)
                                        EXCEPT !.busaddr = a, !.cfg = cfg]
                     ELSE /\ pf' = [pf EXCEPT ![b] = NoBoard("failed")]
                          /\ last' = [Call("__init__", b, <<>>, "TransferError", <<>>, sent)
                                        EXCEPT !.busaddr = a, !.cfg = cfg]

(* ------------------------------------------------------------------ *)
(* PiFace methods                                                       *)
(* ------------------------------------------------------------------ *)

\* read() on the object of slot b; the transfer completes (io) or raises,
\* level is what the input pins show
read(b, io, level) ==
  /\ pf[b].st = "made"
  /\   LET t == Transfer(pf[b].spi, <<Cmdr(pf[b].board), _RA_GPIOB, 0>>, io, level)
           inputs == Xor(t.val, pf[b].read_polarity)
       IN /\ gpioa' = t.gpioa
          /\ IF t.res = "ok"
             THEN /\ pf' = [pf EXCEPT ![b].inputs = inputs]
                  /\ last' = Call("read", b, <<>>, "ok", <<inputs>>, t.tx)
             ELSE /\ pf' = pf
                  /\ last' = Call("read", b, <<>>, t.res, <<>>, t.tx)
  /\ UNCHANGED <<dev, _spi, _pifaces>>

\* pins read_pin is called with
ReadPins == 0..7

\* read_pin that decodes the pin above the one asked for
ReadPin_NextPin(inputs, pin) == IF And(inputs, Bit(pin + 1)) # 0 THEN 1 ELSE 0

\* bool(self.inputs & (1 << pin)), True as 1 and False as 0
ReadPin(inputs, pin) == IF And(inputs, Bit(pin)) # 0 THEN 1 ELSE 0

\* read_pin(pin)
read_pin(b, pin) ==
  /\ pf[b].st = "made"
  /\ last' = Call("read_pin", b, <<pin>>, "ok", <<ReadPin(pf[b].inputs, pin)>>, <<>>)
  /\ UNCHANGED <<pf, dev, _spi, gpioa, _pifaces>>

\* write(data) that keeps data as given
Pending_NoMask(outputs, arg) == IF arg # <<>> THEN arg[1] ELSE outputs

\* the pending byte write(data) goes on with
Pending(outputs, arg) == IF arg # <<>> THEN Low8(arg[1]) ELSE outputs

\* write() that sends the byte whether or not it changed
Changed_Always(outputs_last, outputs) == TRUE

\* "Don't write outputs unless there is a change"
Changed(outputs_last, outputs) == outputs_last # outputs

\* a write transfer that carries the byte as the application gave it
WireByte_Raw(outputs, write_polarity) == outputs

\* the data byte of the write transfer
WireByte(outputs, write_polarity) == Xor(outputs, write_polarity)

\* write(data=None)
write(b, arg, io) ==
  /\ pf[b].st = "made"
  /\ LET outputs == Pending(pf[b].outputs, arg)
     IN IF ~Changed(pf[b].outputs_last, outputs)
        THEN /\ pf' = [pf EXCEPT ![b].outputs = outputs]
             /\ last' = Call("write", b, arg, "ok", <<>>, <<>>)
             /\ UNCHANGED gpioa
        ELSE   LET t == Transfer(pf[b].spi,
                          <<Cmdw(pf[b].board), _RA_GPIOA,
                            WireByte(outputs, pf[b].write_polarity)>>, io, 0)
               IN \* outputs_last is assigned before the transfer is made
                  /\ pf' = [pf EXCEPT
                              ![b].outputs = outputs,
                              ![b].outputs_last = outputs,
                              ![b].synced = IF t.res = "ok" THEN outputs ELSE @]
                  /\ last' = Call("write", b, arg, t.res, <<>>, t.tx)
                  /\ gpioa' = t.gpioa
  /\ UNCHANGED <<dev, _spi, _pifaces>>

\* pins write_pin is called with
Pins == {3}

\* write_pin that drops every pin when it clears one
SetPin_ClearAll(outputs, pin, data) ==
  IF data THEN Or(outputs, Bit(pin)) ELSE 0

\* outputs after write_pin(pin, data)
SetPin(outputs, pin, data) ==
  IF data THEN Or(outputs, Bit(pin))
  ELSE And(outputs, (-Bit(pin) - 1) % 512)

\* outputs kept in one attribute of the class, shared by every object
SetOutputs_Shared(b, outputs) ==
  [x \in Boards |-> IF pf[x].st = "made"
                    THEN [pf[x] EXCEPT !.outputs = outputs] ELSE pf[x]]

\* the objects after "self.outputs = ..." in the object of slot b
SetOutputs(b, outputs) == [pf EXCEPT ![b].outputs = outputs]

\* write_pin(pin, data); the arguments are kept as <<pin, 1 or 0>>
write_pin(b, pin, data) ==
  /\ pf[b].st = "made"
  /\ pf' = SetOutputs(b, SetPin(pf[b].outputs, pin, data))
  /\ last' = Call("write_pin", b, <<pin, IF data THEN 1 ELSE 0>>, "ok", <<>>, <<>>)
  /\ UNCHANGED <<dev, _spi, gpioa, _pifaces>>

\* read_outputs that also takes the byte read as the pending one
ReadBack_AlsoPending(p, outputs_last) ==
  [p EXCEPT !.outputs_last = outputs_last, !.synced = outputs_last,
            !.outputs = outputs_last]

\* the object p after "self.outputs_last = ..." in read_outputs
ReadBack(p, outputs_last) ==
  [p EXCEPT !.outputs_last = outputs_last, !.synced = outputs_last]

read_outputs(b, io) ==
  /\ pf[b].st = "made"
  /\   LET t == Transfer(pf[b].spi, <<Cmdr(pf[b].board), _RA_GPIOA, 0>>, io, 0)
           outputs_last == Xor(t.val, pf[b].write_polarity)
       IN /\ gpioa' = t.gpioa
          /\ IF t.res = "ok"
             THEN /\ pf' = [pf EXCEPT ![b] = ReadBack(@, outputs_last)]
                  /\ last' = Call("read_outputs", b, <<>>, "ok", <<outputs_last>>, t.tx)
             ELSE /\ pf' = pf
                  /\ last' = Call("read_outputs", b, <<>>, t.res, <<>>, t.tx)
  /\ UNCHANGED <<dev, _spi, _pifaces>>

\* close() that never finds itself the last
LastBoard_Never(count) == FALSE

\* "Close spi device if this is the last board we had open"
LastBoard(count) == count = 0

\* close()
close(b) ==
  /\ pf[b].st = "made"
  /\ pf[b].nclose < MaxClose
  /\ LET d == pf[b].spi
         count == dev[d].count - 1
     IN IF LastBoard(count)
        THEN /\ dev' = [dev EXCEPT ![d].count = count, ![d].st = "closed",
                                   ![d].nclose = @ + 1]
             /\ _spi' = [_spi EXCEPT ![pf[b].busaddr] = 0]
        ELSE /\ dev' = [dev EXCEPT ![d].count = count]
             /\ UNCHANGED _spi
  /\ pf' = [pf EXCEPT ![b].nclose = @ + 1]
  /\ last' = Call("close", b, <<>>, "ok", <<>>, <<>>)
  /\ UNCHANGED <<gpioa, _pifaces>>

(* ------------------------------------------------------------------ *)
(* piface package emulation: init() and deinit()                        *)
(* ------------------------------------------------------------------ *)

\* the record kept of a call of the emulation layer (its transfers are
\* not logged)
LegacyCall(op, arg, a, res) ==
  [op |-> op, b |-> 0, arg |-> arg, cfg |-> Defaults, busaddr |-> a,
   res |-> res, ret |-> <<>>, tx |-> <<>>]

RECURSIVE CloseEach(_, _, _)
\* "for pf in _pifaces: pf.close()": the devices dv and the registry reg
\* after close() of each object of the list, in order
CloseEach(objs, dv, reg) ==
  IF objs = <<>> THEN [dev |-> dv, _spi |-> reg]
  ELSE LET p == Head(objs)
           count == dv[p.spi].count - 1
       IN IF LastBoard(count)
          THEN CloseEach(Tail(objs),
                 [dv EXCEPT ![p.spi].count = count, ![p.spi].st = "closed",
                            ![p.spi].nclose = @ + 1],
                 [reg EXCEPT ![p.busaddr] = 0])
          ELSE CloseEach(Tail(objs), [dv EXCEPT ![p.spi].count = count], reg)

\* deinit()
deinit ==
  /\ LET D == CloseEach(_pifaces, dev, _spi)
     IN dev' = D.dev /\ _spi' = D._spi
  /\ _pifaces' = <<>>
  /\ last' = LegacyCall("deinit", <<>>, <<0, 0>>, "ok")
  /\ UNCHANGED <<pf, gpioa>>

\* PiFace(b, init_board=init_board, ...) as init() calls it for board b
LegacyConfig(b, init_board) ==
  [Defaults EXCEPT !.board = b, !.init_board = init_board]

\* where a call of init() raises: not at all ("none"), in open() of the
\* spidev ("open"), in transfer k + 1 of the constructor of board n
\* ("init"), or in the transfer of pf.write(0) of board n ("write")
LegacyFails ==
  {[at |-> "none", n |-> 0, k |-> 0], [at |-> "open", n |-> 0, k |-> 0]}
    \cup {[at |-> "init", n |-> n, k |-> k] : n \in {0, 1}, k \in {0, 1}}
    \cup {[at |-> "write", n |-> n, k |-> 0] : n \in {0, 7}}

\* the object p after pf.write(0); sent tells whether its transfer, if
\* it made one, completed
Zeroed(p, sent) ==
  [p EXCEPT !.outputs = Pending(p.outputs, <<0>>),
            !.outputs_last = Pending(p.outputs, <<0>>),
            !.synced = IF Changed(p.outputs_last, Pending(p.outputs, <<0>>)) /\ sent
                       THEN Pending(p.outputs, <<0>>) ELSE @]

\* init(init_board, bus=a[1], chip=a[2]); fail is where it raises and fn
\* the descriptor number open() returns if the spidev is opened
init(init_board, a, fail, fn) ==
  LET \* deinit() comes first
      D == CloseEach(_pifaces, dev, _spi)
      needs == D._spi[a] = 0
      \* ids for a new _SPIdev object: no open device and no object of a
      \* PiFace that still refers to it
      free == {e \in Boards : /\ D.dev[e].st # "open"
                              /\ \A b \in Boards : pf[b].st = "made" => pf[b].spi # e}
      d == IF needs THEN CHOOSE e \in free : \A x \in free : e <= x ELSE D._spi[a]
      dev1 == IF needs
              THEN [D.dev EXCEPT ![d] = [st |-> "open", busaddr |-> a, count |-> 0,
                                         fn |-> fn, nclose |-> 0]]
              ELSE D.dev
      opened == needs => /\ free # {}
                         /\ fn \in Fds \ {D.dev[e].fn : e \in {x \in Boards : D.dev[x].st = "open"}}
      \* the 8 objects of the list comprehension
      objs == [i \in 1..8 |->
                 NewBoard(LegacyConfig(i - 1, init_board), a, d, gpioa[a][i - 1], 15)]
      \* pf.write(0) completed on the first m of them
      zeroed(m) == [i \in 1..8 |-> IF i <= m THEN Zeroed(objs[i], TRUE) ELSE objs[i]]
      latches(m) ==
        [gpioa EXCEPT ![a] =
           [n \in 0..7 |-> IF n < m /\ Changed(objs[n + 1].outputs_last, 0)
                           THEN WireByte(0, objs[n + 1].write_polarity)
                           ELSE gpioa[a][n]]]
      arg == <<IF init_board THEN 1 ELSE 0>>
  IN CASE fail.at = "open" ->
            /\ needs
            /\ fn = 0
            /\ dev' = D.dev /\ _spi' = D._spi /\ _pifaces' = <<>>
            /\ last' = LegacyCall("init", arg, a, "DeviceUnavailable")
            /\ UNCHANGED <<pf, gpioa>>
       [] fail.at = "init" ->
            \* boards 0..n-1 were constructed and board n raised after
            \* "self.spi.count += 1": the list is never assigned
            /\ opened /\ (~needs => fn = 0)
            /\ fail.k < Len(InitPlan(LegacyConfig(fail.n, init_board)))
            /\ dev1[d].count + fail.n + 1 <= MaxLeak
            /\ dev' = [dev1 EXCEPT ![d].count = @ + fail.n + 1]
            /\ _spi' = [D._spi EXCEPT ![a] = d]
            /\ _pifaces' = <<>>
            /\ last' = [LegacyCall("init", arg, a, "TransferError") EXCEPT
                          !.ret = <<fail.n, fail.k>>]
            /\ UNCHANGED <<pf, gpioa>>
       [] fail.at = "write" ->
            \* the list is assigned; write(0) of board n raised after
            \* it set outputs_last
            /\ opened /\ (~needs => fn = 0)
            /\ init_board
            /\ Changed(objs[fail.n + 1].outputs_last, 0)
            /\ dev' = [dev1 EXCEPT ![d].count = @ + 8]
            /\ _spi' = [D._spi EXCEPT ![a] = d]
            /\ _pifaces' = [zeroed(fail.n) EXCEPT
                              ![fail.n + 1] = Zeroed(objs[fail.n + 1], FALSE)]
            /\ gpioa' = latches(fail.n)
            /\ last' = [LegacyCall("init", arg, a, "TransferError") EXCEPT
                          !.ret = <<fail.n>>]
            /\ UNCHANGED pf
       [] fail.at = "none" ->
            /\ opened /\ (~needs => fn = 0)
            /\ dev' = [dev1 EXCEPT ![d].count = @ + 8]
            /\ _spi' = [D._spi EXCEPT ![a] = d]
            /\ _pifaces' = IF init_board THEN zeroed(8) ELSE objs
            /\ gpioa' = IF init_board THEN latches(8) ELSE gpioa
            /\ last' = LegacyCall("init", arg, a, "ok")
            /\ UNCHANGED pf

(* ------------------------------------------------------------------ *)
(* Specifications                                                       *)
(* ------------------------------------------------------------------ *)

\* Several boards on two spidev devices, constructed and closed in any
\* order, each read and written while and after it is open.
Next ==
  \/ \E b \in Boards, cfg \in Configs, a \in BusAddrs : __init__(b, cfg, a, 15)
  \/ \E b \in Boards : read(b, TRUE, 15)
  \/ \E b \in Boards, arg \in {<<>>, <<15>>} : write(b, arg, TRUE)
  \/ \E b \in Boards : read_outputs(b, TRUE)
  \/ \E b \in Boards : close(b)

Spec == Init /\ [][Next]_vars

\* The same boards, constructed and closed in any order and not otherwise
\* used: the calls that touch the registry and the counts.
NextReg ==
  \/ \E b \in Boards, cfg \in Configs, a \in BusAddrs : __init__(b, cfg, a, 15)
  \/ \E b \in Boards : close(b)

SpecReg == Init /\ [][NextReg]_vars

\* One board, every method, every argument, transfers that raise, on a
\* chip whose output latch holds what an earlier program left there.
InitIO ==
  /\ pf = [b \in Boards |-> NoBoard("none")]
  /\ dev = [d \in Boards |-> NoDev]
  /\ _spi = [a \in BusAddrs |-> 0]
  /\ \E v \in Latches : gpioa = [a \in BusAddrs |-> [n \in 0..7 |-> v]]
  /\ last = NoCall
  /\ _pifaces = <<>>

NextIO ==
  \/ \E cfg \in Configs, level \in PinLevels : __init__(1, cfg, <<0, 0>>, level)
  \/ \E io \in BOOLEAN, level \in PinLevels : read(1, io, level)
  \/ \E arg \in WriteArgs, io \in BOOLEAN : write(1, arg, io)
  \/ \E pin \in Pins, data \in BOOLEAN : write_pin(1, pin, data)
  \/ \E io \in BOOLEAN : read_outputs(1, io)
  \/ close(1)

SpecIO == InitIO /\ [][NextIO]_vars

\* One board whose inputs are read and decoded pin by pin.
NextRead ==
  \/ \E cfg \in Configs, level \in PinLevels : __init__(1, cfg, <<0, 0>>, level)
  \/ \E io \in BOOLEAN, level \in PinLevels : read(1, io, level)
  \/ \E pin \in ReadPins : read_pin(1, pin)
  \/ close(1)

SpecRead == Init /\ [][NextRead]_vars

\* One board whose outputs are set byte by byte, with arguments inside
\* and outside 0..255, and pin by pin.
PinArgs == {0, 3, 7}
ByteArgs == {<<>>, <<15>>, <<-1>>, <<496>>}

NextPins ==
  \/ \E cfg \in Configs : __init__(1, cfg, <<0, 0>>, 15)
  \/ \E arg \in ByteArgs, io \in BOOLEAN : write(1, arg, io)
  \/ \E pin \in PinArgs, data \in BOOLEAN : write_pin(1, pin, data)

SpecPins == Init /\ [][NextPins]_vars

\* One board at each of the eight addresses, initialised or not, read,
\* written and read back.
AddrConfigs ==
  {[Defaults EXCEPT !.board = n, !.init_board = i] : n \in 0..7, i \in BOOLEAN}

NextAddr ==
  \/ \E cfg \in AddrConfigs : __init__(1, cfg, <<0, 0>>, 15)
  \/ \E io \in BOOLEAN : read(1, io, 15)
  \/ \E arg \in {<<0>>, <<15>>}, io \in BOOLEAN : write(1, arg, io)
  \/ \E io \in BOOLEAN : read_outputs(1, io)

SpecAddr == Init /\ [][NextAddr]_vars

\* One board under every polarity byte: the read polarity takes every
\* byte and the write polarity its complement, so takes every byte too.
\* Under three of the internal write masks the first write after
\* construction carries every byte; the other writes carry one of two.
PolConfigs ==
  {[Defaults EXCEPT !.read_polarity = c, !.write_polarity = 255 - c] : c \in 0..255}

RawArgs == {<<x>> : x \in 0..255}

RoundTripMasks == {0, 90, 255}

PolArgs ==
  IF last.op = "__init__" /\ pf[1].write_polarity \in RoundTripMasks
  THEN RawArgs ELSE {<<15>>, <<165>>}

NextPol ==
  \/ \E cfg \in PolConfigs : __init__(1, cfg, <<0, 0>>, 15)
  \/ \E arg \in PolArgs : write(1, arg, TRUE)
  \/ read_outputs(1, TRUE)
  \/ read(1, TRUE, 15)

SpecPol == Init /\ [][NextPol]_vars

\* Several boards on one spidev, the board of slot b at address b - 1,
\* each read, written byte by byte and pin by pin and read back while
\* the others are open.
ShareConfig(b) == [Defaults EXCEPT !.board = b - 1]

NextShare ==
  \/ \E b \in Boards : __init__(b, ShareConfig(b), <<0, 0>>, 15)
  \/ \E b \in Boards, level \in PinLevels : read(b, TRUE, level)
  \/ \E b \in Boards, arg \in {<<>>, <<8>>} : write(b, arg, TRUE)
  \/ \E b \in Boards, pin \in Pins, data \in BOOLEAN : write_pin(b, pin, data)
  \/ \E b \in Boards : read_outputs(b, TRUE)

SpecShare == Init /\ [][NextShare]_vars

\* The emulation layer alone: init() and deinit() in any order, on
\* either spidev, with calls of init() that raise.
NextLegacy ==
  \/ \E init_board \in BOOLEAN, a \in BusAddrs, fail \in LegacyFails,
        fn \in Fds \cup {0} : init(init_board, a, fail, fn)
  \/ deinit

SpecLegacy == InitIO /\ [][NextLegacy]_vars

(* ------------------------------------------------------------------ *)
(* Properties of one board (SpecIO)                                     *)
(* ------------------------------------------------------------------ *)

\* the step is a call of op on the object of slot b
Calls(op, b) == last' # last /\ last'.op = op /\ last'.b = b

\* the object of slot b exists and close() was never called on it
IsOpen(b) == pf[b].st = "made" /\ pf[b].nclose = 0

\* the 3 bytes of a logged transfer
Bytes(t) == <<t.cmd, t.reg, t.data>>

\* C1 as the specification states it: on an open board, write(X) right
\* after write(X) makes one transfer in total, write(Y) right after
\* write(X) with X # Y makes two in total, and a write call makes a
\* transfer exactly when the pending byte differs from the cached one.
C1_AsStated ==
  [][\A b \in Boards :
       (IsOpen(b) /\ Calls("write", b)) =>
         /\ (Len(last'.tx) = 1) <=>
              (pf[b].outputs_last # Pending(pf[b].outputs, last'.arg))
         /\ Len(last'.tx) <= 1
         /\ (last.op = "write" /\ last.b = b /\ last.arg # <<>> /\ last'.arg # <<>>
               /\ last.arg[1] \in 0..255 /\ last'.arg[1] \in 0..255) =>
              IF last.arg = last'.arg
              THEN Len(last.tx) + Len(last'.tx) = 1
              ELSE Len(last.tx) + Len(last'.tx) = 2]_vars

\* C1, amended: on an open board a write call makes one transfer, a
\* write of the output port register carrying the pending byte, when the
\* pending byte differs from the cached byte, and none when it does not;
\* so write(X) right after write(X) makes no transfer of its own, and
\* write(Y) right after write(X) makes exactly one when the low 8 bits
\* of X and Y differ (the first call makes one only if X differed from
\* the byte cached before it).
C1_WriteSuppression ==
  [][\A b \in Boards :
       (IsOpen(b) /\ Calls("write", b)) =>
         LET pending == Pending(pf[b].outputs, last'.arg)
         IN /\ IF pf[b].outputs_last # pending
               THEN /\ Len(last'.tx) = 1
                    /\ last'.tx[1].cmd % 2 = 0
                    /\ last'.tx[1].reg = 18
               ELSE last'.tx = <<>> /\ last'.res = "ok"
            /\ (last.op = "write" /\ last.b = b /\ last.arg # <<>> /\ last'.arg # <<>>) =>
                 IF last.arg[1] % 256 = last'.arg[1] % 256
                 THEN last'.tx = <<>> /\ Len(last.tx) + Len(last'.tx) <= 1
                 ELSE Len(last'.tx) = 1]_vars

\* C1 witness: write(X) was called while X was the cached byte and it
\* sent nothing
C1_Witness ==
  /\ last.op = "write" /\ last.arg = <<15>> /\ last.tx = <<>>
  /\ IsOpen(last.b) /\ pf[last.b].outputs_last = 15 /\ pf[last.b].synced = 15

\* C3: the cached output byte of an open board is the byte of the last
\* transfer of the output port register that completed for it (the
\* last write sent, or the last read back, the constructor's included),
\* in application polarity.
C3_CacheIsHardware ==
  \A b \in Boards : IsOpen(b) => pf[b].outputs_last = pf[b].synced

\* C4: a read, write or read_outputs call whose transfer raises leaves
\* the cached output byte and the cached input byte as they were.
C4_FailureKeepsCache ==
  [][\A b \in Boards : \A op \in {"read", "write", "read_outputs"} :
       (Calls(op, b) /\ last'.res = "TransferError") =>
         /\ pf'[b].outputs_last = pf[b].outputs_last
         /\ pf'[b].inputs = pf[b].inputs]_vars

\* the constructor arguments of the scenario of C9
C9_Scenario(cfg) ==
  /\ cfg.board = 0 /\ cfg.pull_ups = 255
  /\ cfg.read_polarity = 0 /\ cfg.write_polarity = 255

\* C9 as the specification states it: after the constructor with the
\* default arguments on a chip whose output latch reads 0 the cached
\* output byte is 255, and write(15) then makes one transfer with the
\* data byte 240.
C9_AsStated ==
  [][\A b \in Boards :
       (last.op = "__init__" /\ last.b = b /\ last.res = "ok"
          /\ C9_Scenario(last.cfg) /\ last.tx[Len(last.tx) - 1].val = 0) =>
         /\ pf[b].outputs_last = 255
         /\ (Calls("write", b) /\ last'.arg = <<15>>) =>
              (Len(last'.tx) = 1 /\ last'.tx[1].data = 240)]_vars

\* C9, amended: after the constructor with pull_ups 0xff, read_polarity
\* 0x00, write_polarity 0xff on board 0 whose output latch reads 0, the
\* cached output byte is 0 (the latch XOR the complement of 0xff), and
\* write(0x0f) then makes exactly one transfer, with the data byte 0x0f.
C9_Polarity ==
  [][\A b \in Boards :
       (last.op = "__init__" /\ last.b = b /\ last.res = "ok"
          /\ C9_Scenario(last.cfg) /\ last.tx[Len(last.tx) - 1].val = 0) =>
         /\ pf[b].outputs_last = 0
         /\ (Calls("write", b) /\ last'.arg = <<15>>) =>
              (Len(last'.tx) = 1 /\ Bytes(last'.tx[1]) = <<64, 18, 15>>)]_vars

\* C9 witness: write(15) on a board of the default polarity made one
\* transfer carrying 15
C9_Witness ==
  /\ last.op = "write" /\ last.arg = <<15>> /\ Len(last.tx) = 1
  /\ last.tx[1].data = 15 /\ last.tx[1].ok
  /\ pf[last.b].board = 0 /\ pf[last.b].write_polarity = 0
  /\ pf[last.b].outputs_last = 15

\* the transfers C10 lists for a board and a pull-up mask
C10_Expected(board, pull_ups, init_board) ==
  (IF init_board
   THEN << <<64 + 2 * board, 10, 8>>, <<64 + 2 * board, 0, 0>>,
           <<64 + 2 * board, 1, 255>>, <<64 + 2 * board, 13, pull_ups>> >>
   ELSE <<>>)
  \o << <<65 + 2 * board, 18, 0>>, <<65 + 2 * board, 19, 0>> >>

\* C10: a constructor call that returns has made exactly the transfers
\* listed, in that order (six with init_board, the two reads without),
\* has cached the two bytes read, each XOR its polarity mask, and leaves
\* the pending output byte equal to the cached one; a constructor call
\* stopped by a transfer that raised has made a prefix of them.
C10_InitSequence ==
  (last.op = "__init__" /\ last.res \in {"ok", "TransferError"}) =>
    LET exp == C10_Expected(last.cfg.board, last.cfg.pull_ups, last.cfg.init_board)
        n == Len(last.tx)
        b == last.b
    IN /\ n <= Len(exp)
       /\ \A i \in 1..n : Bytes(last.tx[i]) = exp[i]
       /\ \A i \in 1..(n - 1) : last.tx[i].ok
       /\ IF last.res = "ok"
          THEN /\ n = Len(exp)
               /\ last.tx[n].ok
               /\ pf[b].outputs_last = Xor(last.tx[n - 1].val, pf[b].write_polarity)
               /\ pf[b].inputs = Xor(last.tx[n].val, pf[b].read_polarity)
               /\ pf[b].outputs = pf[b].outputs_last
          ELSE n >= 1 /\ ~last.tx[n].ok /\ pf[b].st = "failed"

\* C10 witness: a constructor with init_board returned after six
\* transfers
C10_Witness ==
  /\ last.op = "__init__" /\ last.res = "ok" /\ last.cfg.init_board
  /\ Len(last.tx) = 6 /\ pf[last.b].st = "made"

(* ------------------------------------------------------------------ *)
(* Properties of the shared _SPIdev objects (Spec)                      *)
(* ------------------------------------------------------------------ *)

\* the objects a constructor returned that hold _SPIdev d
Users(d) == {b \in Boards : pf[b].st = "made" /\ pf[b].spi = d}

\* C2: open boards on one (bus, chip) pair hold the same _SPIdev; the
\* file of a _SPIdev is open as long as an open board holds it; and once
\* every board that held it is closed, its file has been closed, once.
C2_SharedTransport ==
  /\ \A b, c \in Boards :
       (IsOpen(b) /\ IsOpen(c) /\ pf[b].busaddr = pf[c].busaddr) => pf[b].spi = pf[c].spi
  /\ \A b \in Boards : IsOpen(b) => dev[pf[b].spi].st = "open"
  /\ \A d \in Boards :
       (Users(d) # {} /\ \A b \in Users(d) : pf[b].nclose >= 1) =>
         (dev[d].st = "closed" /\ dev[d].nclose = 1)

\* C5: the count of every _SPIdev is the number of boards constructed
\* on it and not yet closed.
C5_CountIsUsers ==
  \A d \in Boards :
    dev[d].st # "none" =>
      dev[d].count = Cardinality({b \in Users(d) : pf[b].nclose = 0})

\* the _SPIdev objects the registry holds
Registered == {_spi[a] : a \in BusAddrs} \ {0}

\* C6: at most one _SPIdev per (bus, chip) pair has its file open; a
\* _SPIdev is in the registry, under its own pair, exactly when its file
\* is open and its count is at least 1; a constructor that gets past
\* the open creates a _SPIdev with count 1 when the pair has no entry
\* and otherwise adds 1 to the count of the entry, creating nothing;
\* close() closes the file and removes the entry exactly when the count
\* reaches 0.
C6_Registry ==
  /\ [](/\ \A a \in BusAddrs :
            Cardinality({d \in Boards : dev[d].st = "open" /\ dev[d].busaddr = a}) <= 1
        /\ \A a \in BusAddrs : _spi[a] # 0 => dev[_spi[a]].busaddr = a
        /\ \A d \in Boards :
            (d \in Registered) <=> (dev[d].st = "open" /\ dev[d].count >= 1))
  /\ [][\A b \in Boards :
         /\ (Calls("__init__", b) /\ last'.res \in {"ok", "TransferError"}) =>
              LET a == last'.busaddr
              IN IF _spi[a] # 0
                 THEN /\ _spi' = _spi
                      /\ dev' = [dev EXCEPT ![_spi[a]].count = @ + 1]
                 ELSE /\ dev[_spi'[a]].st = "none"
                      /\ dev'[_spi'[a]].st = "open"
                      /\ dev'[_spi'[a]].count = 1
                      /\ \A d \in Boards \ {_spi'[a]} : dev'[d] = dev[d]
         /\ Calls("close", b) =>
              LET d == pf[b].spi
              IN /\ dev'[d].count = dev[d].count - 1
                 /\ \A e \in Boards \ {d} : dev'[e] = dev[e]
                 /\ IF dev'[d].count = 0
                    THEN /\ dev[d].st = "open" /\ dev'[d].st = "closed"
                         /\ _spi[pf[b].busaddr] = d
                         /\ _spi' = [_spi EXCEPT ![pf[b].busaddr] = 0]
                    ELSE dev'[d].st = dev[d].st /\ _spi' = _spi]_vars

\* C6 witness: a pair whose _SPIdev was closed has a fresh one, with
\* count 1, in the registry
C6_Witness ==
  \E d, e \in Boards :
    /\ d # e /\ dev[d].st = "closed" /\ dev[e].st = "open"
    /\ dev[d].busaddr = dev[e].busaddr /\ dev[e].count = 1
    /\ _spi[dev[e].busaddr] = e

\* C7: a read, write or read_outputs call on a board that close() was
\* called on raises and makes no transfer.
C7_ClosedFailsFast ==
  (last.op \in {"read", "write", "read_outputs"} /\ pf[last.b].nclose >= 1) =>
    (last.res # "ok" /\ last.tx = <<>>)

\* C8: a constructor call with a board address outside 0..7 raises
\* InvalidAddress, makes no transfer, and leaves the registry, every
\* _SPIdev and the chips as they were.
C8_InvalidAddress ==
  [][\A b \in Boards :
       (Calls("__init__", b) /\ last'.cfg.board \notin 0..7) =>
         /\ last'.res = "InvalidAddress"
         /\ last'.tx = <<>>
         /\ pf'[b].st = "failed"
         /\ _spi' = _spi /\ dev' = dev /\ gpioa' = gpioa]_vars

\* C8 witness: a constructor call with board 8 was refused while a
\* _SPIdev was open for its pair
C8_Witness ==
  /\ last.op = "__init__" /\ last.cfg.board = 8 /\ last.res = "InvalidAddress"
  /\ _spi[last.busaddr] # 0 /\ dev[_spi[last.busaddr]].count = 1

(* ------------------------------------------------------------------ *)
(* Reading the inputs (SpecRead)                                        *)
(* ------------------------------------------------------------------ *)

\* C11: on an open board every read call makes exactly one transfer, a
\* read of the input port register; when it completes, the byte received
\* XOR the internal read mask becomes the cached input byte and is what
\* the call returns.  The cached input byte changes in no other call (the
\* constructor sets it from its own read of the register).  read_pin(p)
\* makes no transfer, changes nothing, and returns bit p of the cached
\* input byte, whatever the pins show by then.
C11_ReadInputs ==
  [][\A b \in Boards :
       /\ (IsOpen(b) /\ Calls("read", b)) =>
            /\ Len(last'.tx) = 1
            /\ Bytes(last'.tx[1]) = <<65 + 2 * pf[b].board, 19, 0>>
            /\ last'.tx[1].ok =>
                 /\ last'.res = "ok"
                 /\ pf'[b].inputs = Xor(last'.tx[1].val, pf[b].read_polarity)
                 /\ last'.ret = <<pf'[b].inputs>>
       /\ (IsOpen(b) /\ Calls("read_pin", b)) =>
            /\ last'.tx = <<>> /\ last'.res = "ok"
            /\ pf' = pf /\ gpioa' = gpioa /\ dev' = dev
            /\ \E p \in 0..7 :
                 /\ last'.arg = <<p>>
                 /\ last'.ret = <<(pf[b].inputs \div (2 ^ p)) % 2>>
       /\ (pf[b].st = "made" /\ pf'[b].inputs # pf[b].inputs) =>
            Calls("read", b) /\ last'.res = "ok"
       /\ (pf[b].st = "none" /\ pf'[b].st = "made") =>
            /\ Calls("__init__", b)
            /\ pf'[b].inputs =
                 Xor(last'.tx[Len(last'.tx)].val, pf'[b].read_polarity)]_vars

\* C11 witness: read_pin(4) returned True from the cached byte 0xf0 of
\* an open board
C11_Witness ==
  /\ last.op = "read_pin" /\ last.arg = <<4>> /\ last.ret = <<1>>
  /\ IsOpen(last.b) /\ pf[last.b].inputs = 240

(* ------------------------------------------------------------------ *)
(* Setting the outputs pin by pin and byte by byte (SpecPins)           *)
(* ------------------------------------------------------------------ *)

\* bit n of a byte
BitOf(byte, n) == (byte \div (2 ^ n)) % 2

\* C12: on an open board write_pin(pin, value) makes no transfer and
\* changes nothing but bit pin of the pending output byte, which it sets
\* to value; the cached output byte stays.  A write() without argument
\* after it makes no transfer when the pending byte equals the cached
\* one (as after write_pin(3, True), write_pin(3, False) on a flushed
\* board) and otherwise exactly one, a write of the output port register
\* carrying the pending byte.
C12_WritePin ==
  [][\A b \in Boards :
       /\ (IsOpen(b) /\ Calls("write_pin", b)) =>
            /\ last'.tx = <<>> /\ last'.res = "ok"
            /\ gpioa' = gpioa /\ dev' = dev /\ _spi' = _spi
            /\ pf'[b].outputs_last = pf[b].outputs_last
            /\ pf'[b].inputs = pf[b].inputs
            /\ \E p \in 0..7, v \in 0..1 :
                 /\ last'.arg = <<p, v>>
                 /\ \A n \in 0..7 :
                      BitOf(pf'[b].outputs, n) =
                        IF n = p THEN v ELSE BitOf(pf[b].outputs, n)
                 /\ pf'[b].outputs \in 0..255
       /\ (IsOpen(b) /\ Calls("write", b) /\ last'.arg = <<>>) =>
            IF pf[b].outputs = pf[b].outputs_last
            THEN last'.tx = <<>> /\ pf' = pf
            ELSE /\ Len(last'.tx) = 1
                 /\ Bytes(last'.tx[1]) =
                      <<64 + 2 * pf[b].board, 18,
                        Xor(pf[b].outputs, pf[b].write_polarity)>>
       /\ (IsOpen(b) /\ last.op = "write_pin" /\ last.arg = <<3, 1>> /\ last.b = b
             /\ Calls("write_pin", b) /\ last'.arg = <<3, 0>>) =>
            BitOf(pf'[b].outputs, 3) = 0]_vars

\* C12 witness: a write() without argument flushed, in one transfer, a
\* byte that only write_pin calls can have put together (pins 3 and 7)
C12_Witness ==
  /\ last.op = "write" /\ last.arg = <<>> /\ Len(last.tx) = 1
  /\ IsOpen(last.b) /\ pf[last.b].outputs_last = 136
  /\ last.tx[1].ok

(* ------------------------------------------------------------------ *)
(* Reading the outputs back (SpecIO)                                    *)
(* ------------------------------------------------------------------ *)

\* C13: on an open board every read_outputs call makes exactly one
\* transfer, a read of the output port register; when it completes, the
\* call returns the latch of the chip XOR the internal write mask and
\* the cached output byte becomes that value, while the pending output
\* byte and the cached input byte stay.  A write() without argument
\* right after it makes a transfer exactly when the pending byte differs
\* from the value read back.
C13_ReadOutputs ==
  [][\A b \in Boards :
       /\ (IsOpen(b) /\ Calls("read_outputs", b)) =>
            /\ Len(last'.tx) = 1
            /\ Bytes(last'.tx[1]) = <<65 + 2 * pf[b].board, 18, 0>>
            /\ pf'[b].outputs = pf[b].outputs
            /\ pf'[b].inputs = pf[b].inputs
            /\ gpioa' = gpioa
            /\ last'.tx[1].ok =>
                 /\ last'.res = "ok"
                 /\ last'.ret =
                      <<Xor(gpioa[pf[b].busaddr][pf[b].board], pf[b].write_polarity)>>
                 /\ pf'[b].outputs_last = last'.ret[1]
       /\ (IsOpen(b) /\ last.op = "read_outputs" /\ last.b = b /\ last.res = "ok"
             /\ Calls("write", b) /\ last'.arg = <<>>) =>
            (Len(last'.tx) = 1 <=> pf[b].outputs # last.ret[1])]_vars

\* C13 witness: read_outputs returned the byte found in the latch, 0xf0,
\* while another byte was pending
C13_Witness ==
  /\ last.op = "read_outputs" /\ last.res = "ok" /\ last.ret = <<240>>
  /\ IsOpen(last.b) /\ pf[last.b].outputs_last = 240
  /\ pf[last.b].outputs = 15

(* ------------------------------------------------------------------ *)
(* Command bytes (SpecAddr)                                             *)
(* ------------------------------------------------------------------ *)

\* the board address the last call worked with
C14_Address == IF last.op = "__init__" THEN last.cfg.board ELSE pf[last.b].board

\* the i-th transfer of the last call is a register write
C14_IsWrite(i) ==
  \/ last.op = "write"
  \/ last.op = "__init__" /\ last.cfg.init_board /\ i <= 4

\* C14: every transfer of every call on the board constructed with
\* address a in 0..7 (initialisation writes, the constructor's reads,
\* output writes, input reads, output read-backs) carries the command
\* byte 0x40 | (a << 1) when it writes a register and that value OR 1
\* when it reads one.
C14_CommandBytes ==
  \A i \in 1..Len(last.tx) :
    /\ C14_Address \in 0..7
    /\ last.tx[i].cmd =
         IF C14_IsWrite(i) THEN 64 + 2 * C14_Address ELSE 64 + 2 * C14_Address + 1
    /\ last.tx[i].cmd \div 16 = 4
    /\ (last.tx[i].cmd \div 2) % 8 = C14_Address

\* C14 witness: board 5 wrote its output port with command byte 0x4a
C14_Witness ==
  /\ last.op = "write" /\ Len(last.tx) = 1 /\ last.tx[1].cmd = 74
  /\ pf[last.b].board = 5

(* ------------------------------------------------------------------ *)
(* Polarity masks (SpecPol)                                             *)
(* ------------------------------------------------------------------ *)

\* C15: the board constructed with polarity bytes c in 0..255 holds the
\* internal masks (~c) & 0xff = 255 - c, and a mask applied twice to any
\* byte gives the byte back; so the byte a write call sent, masked, is
\* the byte read_outputs returns, unmasked.
C15_PolarityMasks ==
  [][\A b \in Boards :
       /\ (Calls("__init__", b) /\ last'.res = "ok") =>
            /\ pf'[b].read_polarity = 255 - last'.cfg.read_polarity
            /\ pf'[b].write_polarity = 255 - last'.cfg.write_polarity
            /\ \A raw \in 0..255 :
                 /\ Xor(Xor(raw, pf'[b].read_polarity), pf'[b].read_polarity) = raw
                 /\ Xor(WireByte(raw, pf'[b].write_polarity), pf'[b].write_polarity) = raw
       /\ (IsOpen(b) /\ last.op = "write" /\ last.b = b /\ last.res = "ok"
             /\ last.arg # <<>> /\ Calls("read_outputs", b) /\ last'.res = "ok") =>
            /\ last'.ret = <<last.arg[1]>>
            /\ last'.tx[1].val = Xor(last.arg[1], pf[b].write_polarity)]_vars

\* C15 witness: under the internal write mask 0x5a, read_outputs gave
\* back the byte 0xa5 a write call had sent as 0xff
C15_Witness ==
  /\ last.op = "read_outputs" /\ last.res = "ok" /\ last.ret = <<165>>
  /\ pf[last.b].write_polarity = 90
  /\ gpioa[pf[last.b].busaddr][pf[last.b].board] = 255

(* ------------------------------------------------------------------ *)
(* A spidev that cannot be opened (SpecReg)                             *)
(* ------------------------------------------------------------------ *)

\* C16: a construction fails with DeviceUnavailable only when it finds
\* no entry for its (bus, chip) pair and so has to open the spidev; it
\* then leaves the registry, every device and its count and the chips as
\* they were and makes no transfer.  Every construction of a valid board
\* that finds no entry for its pair attempts the open: it fails with
\* DeviceUnavailable or registers a newly opened device.
C16_DeviceUnavailable ==
  [][\A b \in Boards :
       (pf[b].st = "none" /\ pf'[b].st # "none") =>
         LET a == last'.busaddr
         IN /\ last'.op = "__init__" /\ last'.b = b
            /\ last'.res = "DeviceUnavailable" =>
                 /\ _spi[a] = 0
                 /\ _spi' = _spi /\ dev' = dev /\ gpioa' = gpioa
                 /\ last'.tx = <<>>
                 /\ pf'[b].st = "failed"
            /\ (_spi[a] = 0 /\ last'.res \in {"ok", "TransferError"}) =>
                 /\ _spi'[a] # 0
                 /\ dev[_spi'[a]].st = "none"
                 /\ dev'[_spi'[a]].st = "open"
                 /\ dev'[_spi'[a]].busaddr = a
            /\ (_spi[a] # 0 /\ last'.res \in {"ok", "TransferError"}) =>
                 _spi' = _spi /\ dev'[_spi[a]].st = dev[_spi[a]].st]_vars

\* C16 witness: after the board of a pair was closed and the entry of
\* the pair removed, the next construction on the pair tried to open the
\* spidev again and failed
C16_Witness ==
  /\ last.op = "__init__" /\ last.res = "DeviceUnavailable" /\ last.b = 2
  /\ pf[1].st = "made" /\ pf[1].nclose = 1 /\ pf[1].busaddr = last.busaddr
  /\ _spi[last.busaddr] = 0

(* ------------------------------------------------------------------ *)
(* Boards on one spidev (SpecShare)                                     *)
(* ------------------------------------------------------------------ *)

\* C17: a read, write, write_pin or read_outputs call on one board
\* leaves the pending output byte, the cached output byte and the cached
\* input byte of every other board as they were, and the count of every
\* device, the one the boards share included.
C17_BoardIsolation ==
  [][\A b \in Boards :
       \A op \in {"read", "write", "write_pin", "read_outputs"} :
         Calls(op, b) =>
           /\ \A c \in Boards \ {b} :
                /\ pf'[c].outputs = pf[c].outputs
                /\ pf'[c].outputs_last = pf[c].outputs_last
                /\ pf'[c].inputs = pf[c].inputs
           /\ \A d \in Boards : dev'[d].count = dev[d].count
           /\ _spi' = _spi]_vars

\* C17 witness: write_pin on one of two boards that share a device set a
\* pin of that board while the other board kept another pending byte
C17_Witness ==
  /\ last.op = "write_pin" /\ last.b = 1 /\ last.arg = <<3, 1>>
  /\ pf[1].st = "made" /\ pf[2].st = "made"
  /\ pf[1].spi = pf[2].spi /\ dev[pf[1].spi].count = 2
  /\ pf[1].outputs = 8 /\ pf[2].outputs = 0 /\ pf[2].outputs_last = 8

(* ------------------------------------------------------------------ *)
(* Byte range of the outputs (SpecPins)                                 *)
(* ------------------------------------------------------------------ *)

\* C18: whatever integers write(data) is given and whatever pins
\* write_pin sets or clears, the pending and the cached output byte of a
\* board are in 0..255 and so is the data byte of every transfer made;
\* write(X) leaves as pending byte the one value in 0..255 congruent to
\* X modulo 256, and sends that byte XOR the write mask if it sends one,
\* which makes write(X) and write(X & 0xff) the same call.
C18_ByteRange ==
  [][\A b \in Boards :
       pf'[b].st = "made" =>
         /\ pf'[b].outputs \in 0..255
         /\ pf'[b].outputs_last \in 0..255
         /\ \A i \in 1..Len(last'.tx) : last'.tx[i].data \in 0..255
         /\ (Calls("write", b) /\ last'.arg # <<>>) =>
              /\ (last'.arg[1] - pf'[b].outputs) % 256 = 0
              /\ last'.tx # <<>> =>
                   last'.tx[1].data = Xor(pf'[b].outputs, pf[b].write_polarity)
              /\ (last'.tx # <<>>) <=> (pf'[b].outputs # pf[b].outputs_last)]_vars

\* C18 witness: write(-1) left 0xff pending and sent one byte
C18_Witness ==
  /\ last.op = "write" /\ last.arg = <<-1>> /\ Len(last.tx) = 1
  /\ pf[last.b].outputs = 255 /\ pf[last.b].outputs_last = 255
  /\ last.tx[1].data \in {0, 255}

(* ------------------------------------------------------------------ *)
(* Lifecycle of the emulation layer (SpecLegacy)                        *)
(* ------------------------------------------------------------------ *)

\* C19: after a call of init() that returns, whatever init() and
\* deinit() calls came before, _pifaces holds eight objects, boards 0..7
\* of the chosen pair, and the count of the pair's device is 8; after
\* deinit() the device of the pair the objects were on is closed and the
\* pair has no entry in the registry; deinit() while _pifaces is None
\* changes nothing.
C19_LegacyLifecycle ==
  [][/\ (last' # last /\ last'.op = "init" /\ last'.res = "ok") =>
          /\ Len(_pifaces') = 8
          /\ \A i \in 1..8 : /\ _pifaces'[i].board = i - 1
                             /\ _pifaces'[i].busaddr = last'.busaddr
                             /\ _pifaces'[i].spi = _spi'[last'.busaddr]
          /\ _spi'[last'.busaddr] # 0
          /\ dev'[_spi'[last'.busaddr]].st = "open"
          /\ dev'[_spi'[last'.busaddr]].count = 8
     /\ (last' # last /\ last'.op = "deinit") =>
          /\ _pifaces' = <<>>
          /\ _pifaces # <<>> =>
               /\ _spi'[_pifaces[1].busaddr] = 0
               /\ dev'[_pifaces[1].spi].st = "closed"
          /\ _pifaces = <<>> => (dev' = dev /\ _spi' = _spi /\ gpioa' = gpioa)
    ]_vars

============================================================================
